---- MODULE Spec2Model ----
(***************************************************************************)
(* Workflow templates of engine/api/templates.go: the instance reconciler  *)
(* (applyTemplate), the bulk orchestrator (postTemplateBulkHandler and its *)
(* background task), the bulk read (getTemplateBulkHandler), the decoding  *)
(* of template archives (ReadFromTar) and the handlers of the template     *)
(* store (postTemplateHandler, putTemplateHandler, deleteTemplateHandler). *)
(* The import of a workflow as code is postPerformImportAsCodeHandler of   *)
(* engine/api/ascode.go.                                                   *)
(*                                                                         *)
(* Strings are sequences of bytes, so that fmt.Sprintf and the string      *)
(* order used by sort.Slice are computed as Go computes them.              *)
(***************************************************************************)
EXTENDS Integers, Sequences, FiniteSets, TLC

VARIABLES
    ledger,     \* table workflow_template_instance: the set of persisted rows
    nextID,     \* the serial that InsertInstance draws row ids from
    loopVar,    \* which loop variable semantics the build has
    inflight,   \* an applyTemplate call between its lookup and the rest (and
                \* whether another call committed since that lookup), or None
    last,       \* what the last finished applyTemplate call did and published
    job,        \* table workflow_template_bulk: the persisted bulk job, or None
    bulk,       \* the bulk value shared by the handler and its goroutine
    task,       \* the goroutine api.templateBulkApply: its position
    reply,      \* what the last bulk handler call wrote to its caller
    tar,        \* a template archive: the template it was pulled from, its
                \* entries, and what ReadFromTar returned for it
    catalog,    \* table workflow_template: the set of persisted templates
    nextTemplateID, \* the serial that Insert draws template ids from
    answer,     \* what the last template handler call did
    putting,    \* a putTemplateHandler call between its load and its update:
                \* the template it loaded, or None
    handler,    \* postTemplateBulkHandler after the start of its goroutine:
                \* "respond" until it has written its response
    held,       \* the template that a caller of applyTemplate loaded, or None
    ascode      \* the repository operations and what the last call of
                \* postPerformImportAsCodeHandler did

vars == <<ledger, nextID, loopVar, inflight, last, job, bulk, task, reply, tar,
          catalog, nextTemplateID, answer, putting, handler, held, ascode>>

None == [none |-> TRUE]

----------------------------------------------------------------------------
(* Bounds of the model.                                                    *)

\* rows that InsertInstance may create in one behaviour
MaxID == 2
\* operations in one bulk request
MaxOps == 3
\* entries in one uploaded archive
MaxEntries == 3
\* sub-definitions of one kind in a template that is pulled
MaxSubs == 2
\* templates that Insert may create in one behaviour
MaxTemplates == 2
\* the version that a template may be updated to
MaxVersion == 2

----------------------------------------------------------------------------
(* Strings.                                                                *)

Dash == 45

STR_P == <<80>>
STR_P_A == <<80, 45, 65>>
STR_Q == <<81>>
STR_w == <<119>>
STR_A_w == <<65, 45, 119>>

\* a < b for Go strings: bytewise lexicographic order
RECURSIVE StrLess(_, _)
StrLess(a, b) ==
    IF b = <<>> THEN FALSE
    ELSE IF a = <<>> THEN TRUE
    ELSE IF Head(a) # Head(b) THEN Head(a) < Head(b)
    ELSE StrLess(Tail(a), Tail(b))

\* fmt.Sprintf("%s-%s", a, b)
Sprintf(a, b) == a \o <<Dash>> \o b

----------------------------------------------------------------------------
(* The inputs.                                                             *)

\* the projects of the store, by key; STR_Q is the key of no project
ProjectKeys == {STR_P, STR_P_A}
ProjectID(key) == IF key = STR_P THEN 1 ELSE 2

WorkflowNames == {STR_w, STR_A_w}
Parameters == {"x", "y"}

\* the one template of the store, as LoadBySlugAndGroupID returns it
Templates == {[ID |-> 1, Version |-> 1]}

Requests ==
    [ProjectKey : ProjectKeys, WorkflowName : WorkflowNames,
     Parameters : Parameters, Detached : BOOLEAN]

\* the Go language version of the build decides what &res points to after the
\* loop of applyTemplate: one variable per loop (before 1.22), or one per iteration
LoopVars == {"perLoop", "perIteration"}

\* what time.Now().Unix() may return
Times == {7}

\* the store and yaml calls of applyTemplate that can return an error; "none": none does
FailAts == {"none", "begin", "lookup", "deleteOther", "deleteCandidate", "update",
            "insert", "updateName", "marshal", "commit"}

\* what workflowtemplate.Execute returns: an error, a text that is no workflow,
\* or a workflow text with its name
ExecOuts ==
    {[kind |-> "error", name |-> <<>>], [kind |-> "unparsable", name |-> <<>>]}
    \cup [kind : {"workflow"}, name : WorkflowNames]

\* the inputs of one call besides its request; of an input that makes a store
\* call fail only one generated workflow is kept: the failure hides the others
ApplyInputs ==
    {in \in [failAt : FailAts, exec : ExecOuts, now : Times] :
        in.failAt # "none" => in.exec = [kind |-> "workflow", name |-> STR_w]}

\* the requests of direct calls, on one project
ApplyRequests == {req \in Requests : req.ProjectKey = STR_P}

\* the requests of overlapping calls, for one (template, project, workflow name)
RaceRequests ==
    {req \in ApplyRequests : req.WorkflowName = STR_w /\ req.Parameters = "x"}

----------------------------------------------------------------------------
(* The instance store (package workflowtemplate).                          *)

\* the rows GetInstancesByTemplateIDAndProjectIDAndRequestWorkflowName selects
InstancesByRequest(db, tID, pID, name) ==
    {r \in db : /\ r.WorkflowTemplateID = tID
                /\ r.ProjectID = pID
                /\ r.Request.WorkflowName = name}

\* the orders in which a query may return the rows S
Orderings(S) ==
    {q \in [1..Cardinality(S) -> S] : \A i, j \in DOMAIN q : i # j => q[i] # q[j]}

DeleteInstance(db, wti) == {r \in db : r.ID # wti.ID}

UpdateInstance(db, wti) == {IF r.ID = wti.ID THEN wti ELSE r : r \in db}

InsertInstance(db, wti) == db \cup {wti}

----------------------------------------------------------------------------
(* applyTemplate.                                                          *)

\* the instance wti points to after the loop over wtis: wti = &res takes the
\* address of the loop variable in the first iteration
LoopCandidateNone(wtis) == None
LoopCandidate(wtis) ==
    IF Len(wtis) = 0 THEN None
    ELSE IF loopVar = "perLoop" THEN wtis[Len(wtis)]
    ELSE wtis[1]

\* the rows the loop hands to DeleteInstance: every res but the first
LoopOthersNone(wtis) == {}
LoopOthers(wtis) == {wtis[i].ID : i \in 2..Len(wtis)}

\* the deferred tx.Rollback(): after a commit it does nothing, before it the
\* writes of the transaction are dropped
RollbackLeaks(err, db, tx) == tx
Rollback(err, db, tx) == IF err THEN db ELSE tx

\* the events published after the commit
PublishAlwaysAdd(old, wti, req) == <<[type |-> "InstanceAdd", id |-> wti.ID]>>
PublishWhenDetached(old, wti, req) ==
    <<[type |-> IF old # None THEN "InstanceUpdate" ELSE "InstanceAdd", id |-> wti.ID]>>
Publish(old, wti, req) ==
    IF old # None THEN <<[type |-> "InstanceUpdate", id |-> wti.ID]>>
    ELSE IF ~req.Detached THEN <<[type |-> "InstanceAdd", id |-> wti.ID]>>
    ELSE <<>>

\* the template version set on the instance (lines 337 and 346)
NeverBack(cand, wt) ==
    IF cand # None /\ cand.WorkflowTemplateVersion > wt.Version
    THEN cand.WorkflowTemplateVersion
    ELSE wt.Version
Pinned(cand, wt) == wt.Version

\* one call of applyTemplate on the committed rows db, with wtis what its lookup
\* returned; serial is the next row id. The result: err, the committed rows and
\* serial after the call, the events published, the instance and the result
\* of workflowtemplate.Execute.
applyTemplate(db, serial, wtis, wt, p, req, in) ==
    LET others == LoopOthers(wtis)
        db1 == {r \in db : r.ID \notin others}
        found == LoopCandidate(wtis)
        drop == found # None /\ req.Detached
        db2 == IF drop THEN DeleteInstance(db1, found) ELSE db1
        cand == IF drop THEN None ELSE found
        old == cand
        fresh == cand = None /\ ~req.Detached
        wti1 == IF cand # None
                THEN [cand EXCEPT !.WorkflowTemplateVersion = Pinned(cand, wt),
                                  !.Request = req]
                ELSE [ID |-> IF req.Detached THEN in.now ELSE serial,
                      ProjectID |-> p.ID,
                      WorkflowTemplateID |-> wt.ID,
                      WorkflowTemplateVersion |-> Pinned(cand, wt),
                      Request |-> req,
                      WorkflowName |-> <<>>]
        db3 == IF cand # None THEN UpdateInstance(db2, wti1)
               ELSE IF fresh THEN InsertInstance(db2, wti1)
               ELSE db2
        named == ~req.Detached /\ in.exec.kind = "workflow"
        wti2 == IF named THEN [wti1 EXCEPT !.WorkflowName = in.exec.name] ELSE wti1
        db4 == IF named THEN UpdateInstance(db3, wti2) ELSE db3
        \* the first call that returns an error, "none" when the call succeeds
        step ==
            IF in.failAt \in {"begin", "lookup"} THEN in.failAt
            ELSE IF in.failAt = "deleteOther" /\ others # {} THEN "deleteOther"
            ELSE IF in.failAt = "deleteCandidate" /\ drop THEN "deleteCandidate"
            ELSE IF in.failAt = "update" /\ cand # None THEN "update"
            ELSE IF in.failAt = "insert" /\ fresh THEN "insert"
            ELSE IF in.exec.kind = "error" THEN "execute"
            ELSE IF in.exec.kind = "unparsable" /\ ~req.Detached THEN "unmarshal"
            ELSE IF in.failAt \in {"updateName", "marshal"} /\ ~req.Detached
                 THEN in.failAt
            ELSE IF in.failAt = "commit" THEN "commit"
            ELSE "none"
        \* the rows as the transaction sees them when that call fails
        tx == CASE step \in {"begin", "lookup", "deleteOther"} -> db
                [] step = "deleteCandidate" -> db1
                [] step \in {"update", "insert"} -> db2
                [] step \in {"execute", "unmarshal", "updateName"} -> db3
                [] OTHER -> db4
        err == step # "none"
    IN  [err |-> err,
         step |-> step,
         db |-> Rollback(err, db, tx),
         serial |-> IF fresh /\ ~err THEN serial + 1 ELSE serial,
         events |-> IF err THEN <<>> ELSE Publish(old, wti2, req),
         found |-> Len(wtis),
         first |-> IF Len(wtis) = 0 THEN 0 ELSE wtis[1].ID,
         given |-> wt.Version,
         wti |-> wti2,
         result |-> in.exec]

----------------------------------------------------------------------------
(* The calls of applyTemplate.                                             *)

Project(key) == [ID |-> ProjectID(key), Key |-> key]

NoCall == [op |-> "none", req |-> None, step |-> "none", alone |-> TRUE,
           again |-> FALSE, found |-> 0, events |-> <<>>, raced |-> FALSE,
           first |-> 0, id |-> 0, pin |-> 0, given |-> 0]

\* what a finished call leaves in last: its request, the call that returned an
\* error ("none": the call succeeded), whether no other call ran since its
\* lookup, whether the call before it was a successful call with the same
\* request, how many rows its lookup returned, and the events it published;
\* whether another call committed between its lookup and its end, the id of
\* the first row its lookup returned (0: none), the id and the template
\* version of the instance it worked on, and the version of the template it
\* was given
Called(req, r, alone) ==
    [op |-> "apply", req |-> req, step |-> r.step, alone |-> alone,
     again |-> (last.op = "apply" /\ last.step = "none" /\ last.alone
                /\ last.req = req /\ alone),
     found |-> r.found, events |-> r.events,
     raced |-> (~alone /\ inflight.overtaken),
     first |-> r.first, id |-> r.wti.ID, pin |-> r.wti.WorkflowTemplateVersion,
     given |-> r.given]

\* a whole call, with no other writer of the ledger in between
Apply(wt, req, in) ==
    LET p == Project(req.ProjectKey) IN
    \E wtis \in Orderings(InstancesByRequest(ledger, wt.ID, p.ID, req.WorkflowName)) :
        LET r == applyTemplate(ledger, nextID, wtis, wt, p, req, in) IN
        /\ r.serial <= MaxID + 1
        /\ ledger' = r.db
        /\ nextID' = r.serial
        /\ last' = Called(req, r, TRUE)
        /\ inflight' = IF inflight # None /\ ~r.err
                       THEN [inflight EXCEPT !.overtaken = TRUE]
                       ELSE inflight
        /\ UNCHANGED <<loopVar, job, bulk, task, reply>>
        /\ UNCHANGED <<tar, catalog, nextTemplateID, answer, putting, handler, held, ascode>>

\* a call up to the return of its lookup (lines 300-311)
ApplyLookup(wt, req) ==
    LET p == Project(req.ProjectKey) IN
    /\ inflight = None
    /\ \E wtis \in Orderings(InstancesByRequest(ledger, wt.ID, p.ID, req.WorkflowName)) :
           inflight' = [wt |-> wt, req |-> req, wtis |-> wtis, overtaken |-> FALSE]
    /\ UNCHANGED <<ledger, nextID, loopVar, last, job, bulk, task, reply>>
    /\ UNCHANGED <<tar, catalog, nextTemplateID, answer, putting, handler, held, ascode>>

\* the rest of that call (lines 313-405), on the rows committed by then
ApplyFinish(in) ==
    /\ inflight # None
    /\ LET req == inflight.req
           r == applyTemplate(ledger, nextID, inflight.wtis, inflight.wt,
                              Project(req.ProjectKey), req, in) IN
       /\ r.serial <= MaxID + 1
       /\ ledger' = r.db
       /\ nextID' = r.serial
       /\ last' = Called(req, r, FALSE)
    /\ inflight' = None
    /\ UNCHANGED <<loopVar, job, bulk, task, reply>>
    /\ UNCHANGED <<tar, catalog, nextTemplateID, answer, putting, handler, held, ascode>>

\* deleteTemplateInstanceHandler: the row of the given id is deleted
deleteTemplateInstanceHandler(instanceID) ==
    /\ \E wti \in ledger :
           /\ wti.ID = instanceID
           /\ ledger' = DeleteInstance(ledger, wti)
    /\ last' = [NoCall EXCEPT !.op = "delete"]
    /\ UNCHANGED <<nextID, loopVar, inflight, job, bulk, task, reply>>
    /\ UNCHANGED <<tar, catalog, nextTemplateID, answer, putting, handler, held, ascode>>

----------------------------------------------------------------------------
(* The bulk orchestrator.                                                  *)

\* the requests of bulk operations; STR_Q is the key of no project and the
\* parameters "none" lack what the template requires
BulkRequests ==
    {[ProjectKey |-> STR_P, WorkflowName |-> STR_w, Parameters |-> "x", Detached |-> FALSE],
     [ProjectKey |-> STR_P, WorkflowName |-> STR_A_w, Parameters |-> "x", Detached |-> FALSE],
     [ProjectKey |-> STR_P_A, WorkflowName |-> STR_w, Parameters |-> "x", Detached |-> FALSE],
     [ProjectKey |-> STR_Q, WorkflowName |-> STR_w, Parameters |-> "x", Detached |-> FALSE],
     [ProjectKey |-> STR_P, WorkflowName |-> STR_w, Parameters |-> "none", Detached |-> FALSE]}

\* the operations of a request body: any status and error text may be sent
BodyOperations == [Request : BulkRequests, Status : {"done"}, Error : {"sent"}]

Bodies == UNION {[1..n -> BodyOperations] : n \in 0..MaxOps}

\* the inputs of applyTemplate in a bulk task
BulkApplyInputs ==
    {in \in ApplyInputs : in.exec.kind = "workflow" => in.exec.name = STR_w}

\* wt.CheckParams(req)
CheckParams(wt, req) == req.Parameters # "none"

\* the key of the duplicate check
Key(o) == Sprintf(o.Request.ProjectKey, o.Request.WorkflowName)

\* the loop over req.Operations (lines 519-532): the error it returns, "" when
\* it returns none
NeverRejected(wt, ops) == ""
CheckRequests(wt, ops) ==
    LET dup(i) == \E j \in 1..(i - 1) : Key(ops[j]) = Key(ops[i])
        bad(i) == dup(i) \/ ~CheckParams(wt, ops[i].Request)
    IN  IF \E i \in DOMAIN ops : bad(i)
        THEN LET i == CHOOSE i \in DOMAIN ops :
                          bad(i) /\ \A j \in 1..(i - 1) : ~bad(j)
             IN  IF dup(i) THEN "request should be unique" ELSE "invalid params"
        ELSE ""

\* the callers: two users and an administrator
Users == {[ID |-> 1, Admin |-> FALSE], [ID |-> 2, Admin |-> FALSE],
          [ID |-> 3, Admin |-> TRUE]}

\* the id InsertBulk gives to the bulk
BulkID == 1

\* the bulk built from the request body (lines 546-554)
NewBulkAsSent(wt, ops, u) ==
    [ID |-> BulkID, UserID |-> u.ID, WorkflowTemplateID |-> wt.ID, Operations |-> ops]
NewBulk(wt, ops, u) ==
    [ID |-> BulkID,
     UserID |-> u.ID,
     WorkflowTemplateID |-> wt.ID,
     Operations |-> [i \in DOMAIN ops |->
                       [Request |-> ops[i].Request, Status |-> "pending", Error |-> ""]]]

\* InsertBulk and UpdateBulk store the whole bulk, operations included
StoredBulk(b) == b

\* what the last handler call returned: the handler, whether it returned an
\* error and which, the operations of the request (post) or of the response,
\* and the bulk id, template id and caller of a get
NoReply == [from |-> "none", err |-> FALSE, cause |-> "", ops |-> <<>>,
            id |-> 0, tID |-> 0, to |-> None]

\* the goroutine of a bulk job: where it is, the operation it is at, the
\* operations of the request, how many goroutines the handler started, whether
\* a store of the bulk failed, and the step that failed in the last operation
NoTask == [pc |-> "none", i |-> 0, req |-> <<>>, spawned |-> 0,
           persistFailed |-> FALSE, failed |-> "none"]

\* postTemplateBulkHandler up to the start of the goroutine (lines 495-560); the
\* model follows one bulk job, so the handler runs until a request is accepted
\* u is the caller; permitted: checkProjectPermissions grants every project of
\* the request; inserted: InsertBulk returns no error. After the start of the
\* goroutine the handler has its response left to write.
postTemplateBulkHandler(wt, ops, u, permitted, inserted) ==
    /\ job = None
    /\ task.pc = "none"
    /\ LET err == CheckRequests(wt, ops)
           cause == IF err # "" THEN err
                    ELSE IF ~u.Admin /\ ~permitted THEN "forbidden"
                    ELSE IF ~inserted THEN "insert"
                    ELSE ""
       IN
       IF cause # ""
       THEN /\ reply' = [NoReply EXCEPT !.from = "post", !.err = TRUE,
                                         !.cause = cause, !.ops = ops]
            /\ UNCHANGED <<job, bulk, task, handler>>
       ELSE /\ bulk' = NewBulk(wt, ops, u)
            /\ job' = StoredBulk(bulk')
            /\ task' = [NoTask EXCEPT !.pc = "loop", !.i = 1, !.req = ops,
                                       !.spawned = task.spawned + 1]
            /\ handler' = "respond"
            /\ reply' = NoReply
    /\ UNCHANGED <<ledger, nextID, loopVar, inflight, last>>
    /\ UNCHANGED <<tar, catalog, nextTemplateID, answer, putting, held, ascode>>

\* service.WriteJSON(w, bulk, http.StatusOK) (line 637): the handler writes the
\* bulk, whose operations the goroutine writes too, at any time after the start
\* of the goroutine
WriteJSON ==
    /\ handler = "respond"
    /\ handler' = "idle"
    /\ reply' = [NoReply EXCEPT !.from = "created", !.ops = bulk.Operations]
    /\ UNCHANGED <<ledger, nextID, loopVar, inflight, last, job, bulk, task>>
    /\ UNCHANGED <<tar, catalog, nextTemplateID, answer, putting, held, ascode>>

\* bulk.Operations[i].Status = sdk.OperationStatusProcessing (line 563)
StaysPending(b, i) == b
MarkProcessing(b, i) == [b EXCEPT !.Operations[i].Status = "processing"]

\* what errorDefer writes into the operation (lines 571-572)
ErrorLeftProcessing(b, i, cause) == [b EXCEPT !.Operations[i].Error = cause]
ErrorWithoutCause(b, i, cause) == [b EXCEPT !.Operations[i].Status = "error"]
MarkError(b, i, cause) ==
    [b EXCEPT !.Operations[i].Status = "error", !.Operations[i].Error = cause]

\* bulk.Operations[i].Status = sdk.OperationStatusDone (line 627)
MarkDone(b, i) == [b EXCEPT !.Operations[i].Status = "done"]

\* where the goroutine goes when UpdateBulk fails: return (lines 565-567,
\* 574-577, 628-631)
GoOnAfterFailedUpdate(i) == [pc |-> "loop", i |-> i + 1]
ReturnOnFailedUpdate(i) == [pc |-> "end", i |-> i]

\* where the goroutine goes after an operation whose error was stored: continue
RetryOnError(i) == [pc |-> "process", i |-> i]
ReturnOnError(i) == [pc |-> "end", i |-> i]
ContinueLoop(i) == [pc |-> "loop", i |-> i + 1]

\* the head of one iteration (lines 561-567): past the last operation the
\* goroutine ends; a pending operation is marked processing and the bulk stored
TaskLoop(updated) ==
    /\ task.pc = "loop"
    /\ IF task.i > Len(bulk.Operations)
       THEN /\ task' = [task EXCEPT !.pc = "end"]
            /\ UNCHANGED <<bulk, job>>
       ELSE IF bulk.Operations[task.i].Status # "pending"
       THEN /\ task' = [task EXCEPT !.i = task.i + 1]
            /\ UNCHANGED <<bulk, job>>
       ELSE /\ bulk' = MarkProcessing(bulk, task.i)
            /\ IF updated
               THEN /\ job' = StoredBulk(bulk')
                    /\ task' = [task EXCEPT !.pc = "process"]
               ELSE /\ job' = job
                    /\ task' = [task EXCEPT !.pc = ReturnOnFailedUpdate(task.i).pc,
                                            !.i = ReturnOnFailedUpdate(task.i).i,
                                            !.persistFailed = TRUE]
    /\ reply' = NoReply
    /\ UNCHANGED <<ledger, nextID, loopVar, inflight, last>>
    /\ UNCHANGED <<tar, catalog, nextTemplateID, answer, putting, handler, held, ascode>>

\* the rest of the iteration (lines 569-631): the project is loaded, the
\* template applied, the result packed and pushed, the status stored; last
\* follows the direct calls of applyTemplate only
TaskProcess(wt, loaded, in, packed, pushed, updated) ==
    /\ task.pc = "process"
    /\ LET i == task.i
           req == bulk.Operations[i].Request
           p == Project(req.ProjectKey)
           found == loaded /\ req.ProjectKey \in ProjectKeys
       IN \E wtis \in Orderings(InstancesByRequest(ledger, wt.ID, p.ID, req.WorkflowName)) :
          LET r == applyTemplate(ledger, nextID, wtis, wt, p, req, in)
              failed == IF ~found THEN "load"
                        ELSE IF r.err THEN "apply"
                        ELSE IF ~packed THEN "tar"
                        ELSE IF ~pushed THEN "push"
                        ELSE "none"
              next == ContinueLoop(i)
          IN /\ r.serial <= MaxID + 1
             /\ ledger' = IF found THEN r.db ELSE ledger
             /\ nextID' = IF found THEN r.serial ELSE nextID
             /\ bulk' = IF failed = "none" THEN MarkDone(bulk, i)
                        ELSE MarkError(bulk, i, failed)
             /\ IF updated
                THEN /\ job' = StoredBulk(bulk')
                     /\ task' = [task EXCEPT !.pc = next.pc, !.i = next.i,
                                             !.failed = failed]
                ELSE /\ job' = job
                     /\ task' = [task EXCEPT !.pc = ReturnOnFailedUpdate(i).pc,
                                             !.i = ReturnOnFailedUpdate(i).i,
                                             !.persistFailed = TRUE,
                                             !.failed = failed]
    /\ reply' = NoReply
    /\ UNCHANGED <<loopVar, inflight, last>>
    /\ UNCHANGED <<tar, catalog, nextTemplateID, answer, putting, handler, held, ascode>>

\* the less function of the sort.Slice (line 676)
LessByProjectKey(a, b) == StrLess(a.Request.ProjectKey, b.Request.ProjectKey)
Less(a, b) == StrLess(a.Request.WorkflowName, b.Request.WorkflowName)

\* the orders sort.Slice may leave ops in: sort.Slice is not stable
Sorted(ops) ==
    {q \in [DOMAIN ops -> {ops[i] : i \in DOMAIN ops}] :
        /\ \A o \in {ops[i] : i \in DOMAIN ops} :
              Cardinality({i \in DOMAIN ops : q[i] = o})
                  = Cardinality({i \in DOMAIN ops : ops[i] = o})
        /\ \A i, j \in DOMAIN ops : i < j => ~Less(q[j], q[i])}

\* GetBulkByIDAndTemplateID: the bulks of the given id and template
GetBulkByIDAndTemplateID(db, id, tID) ==
    IF db # None /\ db.ID = id /\ db.WorkflowTemplateID = tID THEN {db} ELSE {}

\* !(!u.Admin && u.ID != b.UserID) (line 671)
VisibleToAll(u, b) == TRUE
Visible(u, b) == u.Admin \/ u.ID = b.UserID

\* getTemplateBulkHandler, for the bulk id, the id of the loaded template and
\* the caller: the stored bulk, its operations sorted, or an error
getTemplateBulkHandler(id, tID, u) ==
    /\ LET asked == [NoReply EXCEPT !.from = "get", !.id = id, !.tID = tID, !.to = u]
           found == {b \in GetBulkByIDAndTemplateID(job, id, tID) : Visible(u, b)}
       IN  IF id = 0
           THEN reply' = [asked EXCEPT !.err = TRUE, !.cause = "invalid given id"]
           ELSE IF found = {}
           THEN reply' = [asked EXCEPT !.err = TRUE, !.cause = "not found"]
           ELSE \E b \in found : \E q \in Sorted(b.Operations) :
                    reply' = [asked EXCEPT !.ops = q]
    /\ UNCHANGED <<ledger, nextID, loopVar, inflight, last, job, bulk, task>>
    /\ UNCHANGED <<tar, catalog, nextTemplateID, answer, putting, handler, held, ascode>>

----------------------------------------------------------------------------
(* Template archives: ReadFromTar.                                         *)

\* ".application.", ".pipeline.", ".environment." and "workflow.yml"
DotApplication == <<46, 97, 112, 112, 108, 105, 99, 97, 116, 105, 111, 110, 46>>
DotPipeline == <<46, 112, 105, 112, 101, 108, 105, 110, 101, 46>>
DotEnvironment == <<46, 101, 110, 118, 105, 114, 111, 110, 109, 101, 110, 116, 46>>
WorkflowYml == <<119, 111, 114, 107, 102, 108, 111, 119, 46, 121, 109, 108>>

\* the entry names of the archives: "a.application.yml", "b.application.yml",
\* "a.pipeline.yml", "a.environment.yml", "t.yml" and "u.yml"
NAME_a_application == <<97, 46, 97, 112, 112, 108, 105, 99, 97, 116, 105, 111, 110, 46, 121, 109, 108>>
NAME_b_application == <<98, 46, 97, 112, 112, 108, 105, 99, 97, 116, 105, 111, 110, 46, 121, 109, 108>>
NAME_a_pipeline == <<97, 46, 112, 105, 112, 101, 108, 105, 110, 101, 46, 121, 109, 108>>
NAME_a_environment == <<97, 46, 101, 110, 118, 105, 114, 111, 110, 109, 101, 110, 116, 46, 121, 109, 108>>
NAME_t == <<116, 46, 121, 109, 108>>
NAME_u == <<117, 46, 121, 109, 108>>

\* the contents of entries, as sequences of words: empty, two YAML documents
\* of a template descriptor, and a text that is no YAML document
EmptyBody == <<>>
BODY_t == <<"slug:", "t">>
BODY_u == <<"slug:", "u">>
BODY_bad == <<"{">>

\* strings.Contains(s, sub)
Contains(s, sub) ==
    \E i \in 0..(Len(s) - Len(sub)) : SubSeq(s, i + 1, i + Len(sub)) = sub

\* the zero value of exportentities.Template
ZeroTemplate == [slug |-> ""]

\* yaml.Unmarshal(b, &tmpl): an error, or tmpl with the fields of the document
Unmarshal(b, tmpl) ==
    IF b = EmptyBody THEN [err |-> FALSE, tmpl |-> tmpl]
    ELSE IF Len(b) = 2 /\ b[1] = "slug:" THEN [err |-> FALSE, tmpl |-> [tmpl EXCEPT !.slug = b[2]]]
    ELSE [err |-> TRUE, tmpl |-> tmpl]

\* yaml.Marshal of a descriptor
Marshal(tmpl) == <<"slug:", tmpl.slug>>

\* tmpl.GetTemplate(wkf, pips, apps, envs)
GetTemplate(tmpl, wkf, pips, apps, envs) ==
    [descriptor |-> tmpl, workflow |-> wkf, pipelines |-> pips,
     applications |-> apps, environments |-> envs]

\* the entries of the uploaded archives
TarEntries ==
    {[Name |-> NAME_a_application, Body |-> BODY_t],
     [Name |-> NAME_b_application, Body |-> BODY_u],
     [Name |-> NAME_a_pipeline, Body |-> BODY_t],
     [Name |-> NAME_a_environment, Body |-> BODY_t],
     [Name |-> WorkflowYml, Body |-> EmptyBody],
     [Name |-> WorkflowYml, Body |-> BODY_t],
     [Name |-> NAME_t, Body |-> BODY_t],
     [Name |-> NAME_t, Body |-> BODY_bad],
     [Name |-> NAME_u, Body |-> BODY_u]}

\* an uploaded archive: its entries, and the entry at which tr.Next or io.Copy
\* returns an error (0: at none)
Archives ==
    UNION {[entries : [1..n -> TarEntries], broken : 0..n] : n \in 0..MaxEntries}

\* the errors ReadFromTar appends to mError
TwoWorkflows == [kind |-> "Two workflow files found", first |-> <<>>, second |-> <<>>]
TwoTemplates(first, second) ==
    [kind |-> "Two template files found", first |-> first, second |-> second]
UnableToUnmarshal(name) ==
    [kind |-> "Unable to unmarshal template", first |-> name, second |-> <<>>]

\* the variables of ReadFromTar before the first entry; read counts the
\* entries read
ScanStart ==
    [apps |-> <<>>, pips |-> <<>>, envs |-> <<>>, wkf |-> <<>>,
     tmpl |-> ZeroTemplate, mError |-> <<>>, templateFileName |-> <<>>,
     read |-> 0, ioErr |-> FALSE]

\* apps = append(apps, b)
PrependEntry(list, b) == <<b>> \o list
AppendEntry(list, b) == Append(list, b)

\* a workflow was already found: len(wkf) != 0
AlreadyFound(wkf) == Len(wkf) # 0

\* the entry read after an entry for which an error was appended: break leaves
\* the switch and continue the iteration, both go on with the next entry
StopAtError(a, k) == Len(a.entries) + 1
AfterError(a, k) == k + 1

\* !mError.IsEmpty()
NeverInvalid(mError) == FALSE
IsInvalid(mError) == mError # <<>>

\* the switch of one iteration (lines 993-1018)
ScanEntry(st, hdr) ==
    LET b == hdr.Body IN
    IF Contains(hdr.Name, DotApplication) THEN [st EXCEPT !.apps = AppendEntry(@, b)]
    ELSE IF Contains(hdr.Name, DotPipeline) THEN [st EXCEPT !.pips = AppendEntry(@, b)]
    ELSE IF Contains(hdr.Name, DotEnvironment) THEN [st EXCEPT !.envs = AppendEntry(@, b)]
    ELSE IF hdr.Name = WorkflowYml
    THEN IF AlreadyFound(st.wkf)
         THEN [st EXCEPT !.mError = Append(@, TwoWorkflows)]
         ELSE [st EXCEPT !.wkf = b]
    ELSE IF st.templateFileName # <<>>
    THEN [st EXCEPT !.mError = Append(@, TwoTemplates(st.templateFileName, hdr.Name))]
    ELSE LET y == Unmarshal(b, st.tmpl) IN
         IF y.err
         THEN [st EXCEPT !.mError = Append(@, UnableToUnmarshal(hdr.Name)),
                         !.tmpl = y.tmpl]
         ELSE [st EXCEPT !.tmpl = y.tmpl, !.templateFileName = hdr.Name]

\* the for loop (lines 978-1019) from entry k on: it ends at io.EOF, or
\* returns at once when the archive cannot be read
RECURSIVE Scan(_, _, _)
Scan(a, k, st) ==
    IF k > Len(a.entries) THEN st
    ELSE IF a.broken = k THEN [st EXCEPT !.ioErr = TRUE]
    ELSE LET st1 == ScanEntry([st EXCEPT !.read = @ + 1], a.entries[k]) IN
         Scan(a, IF st1.mError # st.mError THEN AfterError(a, k) ELSE k + 1, st1)

\* ReadFromTar(tr): the error it returns ("": none), the causes the error
\* holds, the template, and the number of entries it read
ReadFromTar(a) ==
    LET st == Scan(a, 1, ScanStart) IN
    IF st.ioErr
    THEN [err |-> "ErrWrongRequest", causes |-> <<>>, wt |-> None, read |-> st.read]
    ELSE IF IsInvalid(st.mError)
    THEN [err |-> "ErrWorkflowInvalid", causes |-> st.mError, wt |-> None,
          read |-> st.read]
    ELSE [err |-> "", causes |-> <<>>,
          wt |-> GetTemplate(st.tmpl, st.wkf, st.pips, st.apps, st.envs),
          read |-> st.read]

\* the templates that are pulled: a descriptor, sub-definitions of each kind
\* and the text of a workflow
SubDefinitions == UNION {[1..n -> {EmptyBody, BODY_t}] : n \in 0..MaxSubs}
PullTemplates ==
    [descriptor : {[slug |-> "t"], ZeroTemplate},
     workflow : {EmptyBody, BODY_t},
     pipelines : SubDefinitions,
     applications : SubDefinitions,
     environments : SubDefinitions]

\* strconv.Itoa(n) for n >= 0
Digits == <<48, 49, 50, 51, 52, 53, 54, 55, 56, 57>>
RECURSIVE Itoa(_)
Itoa(n) ==
    IF n < 10 THEN <<Digits[n + 1]>>
    ELSE Itoa(n \div 10) \o <<Digits[(n % 10) + 1]>>

\* the entries of the sub-definitions subs under the names "<i><suffix>yml"
SubEntries(subs, suffix) ==
    [i \in DOMAIN subs |->
        [Name |-> Itoa(i) \o suffix \o SubSeq(WorkflowYml, 10, 12), Body |-> subs[i]]]

\* workflowtemplate.Pull: the descriptor, then the sub-definitions in the order
\* of the template, then the workflow when there is one
Pull(wt) ==
    [entries |->
        <<[Name |-> NAME_t, Body |-> Marshal(wt.descriptor)]>>
        \o SubEntries(wt.pipelines, DotPipeline)
        \o SubEntries(wt.applications, DotApplication)
        \o SubEntries(wt.environments, DotEnvironment)
        \o (IF wt.workflow # EmptyBody
            THEN <<[Name |-> WorkflowYml, Body |-> wt.workflow]>> ELSE <<>>),
     broken |-> 0]

NoResult == [err |-> "unread", causes |-> <<>>, wt |-> None, read |-> 0]

NoTar == [source |-> None, archive |-> None, decoded |-> NoResult]

\* postTemplatePullHandler: the archive of the template wt is written
postTemplatePullHandler(wt) ==
    /\ tar = NoTar
    /\ tar' = [tar EXCEPT !.source = wt, !.archive = Pull(wt)]
    /\ UNCHANGED <<ledger, nextID, loopVar, inflight, last, job, bulk, task, reply>>
    /\ UNCHANGED <<catalog, nextTemplateID, answer, putting, handler, held, ascode>>

\* postTemplatePushHandler up to the return of ReadFromTar (lines 852-865), on
\* the archive a
postTemplatePushHandler(a) ==
    /\ tar.decoded = NoResult
    /\ tar.archive \in {None, a}
    /\ tar' = [tar EXCEPT !.archive = a, !.decoded = ReadFromTar(a)]
    /\ UNCHANGED <<ledger, nextID, loopVar, inflight, last, job, bulk, task, reply>>
    /\ UNCHANGED <<catalog, nextTemplateID, answer, putting, handler, held, ascode>>

----------------------------------------------------------------------------
(* The template store and its handlers.                                    *)

GroupIDs == {1, 2}
Slugs == {"a", "b"}

\* the templates that requests carry: any version may be sent
TemplateData == [GroupID : GroupIDs, Slug : Slugs, Version : {0, MaxVersion}]

\* workflowtemplate.LoadBySlugAndGroupID: the rows of the slug and group
LoadBySlugAndGroupID(db, slug, groupID) ==
    {t \in db : t.Slug = slug /\ t.GroupID = groupID}

\* the unique constraint on (group_id, slug): another row than wt has its pair
InsertAnyway(db, wt) == FALSE
Conflict(db, wt) ==
    \E t \in db : t.ID # wt.ID /\ t.GroupID = wt.GroupID /\ t.Slug = wt.Slug

\* workflowtemplate.Insert and workflowtemplate.Update, when no constraint fails
Insert(db, wt) == db \cup {wt}
Update(db, wt) ==
    IF \E t \in db : t.ID = wt.ID
    THEN {t \in db : t.ID # wt.ID} \cup {wt}
    ELSE db

\* clone.Update(data): the fields of the request, and the next version
UpdateFields(old, data) ==
    [old EXCEPT !.GroupID = data.GroupID, !.Slug = data.Slug, !.Version = @ + 1]

NoAnswer == [op |-> "none", err |-> FALSE, conflict |-> FALSE,
             GroupID |-> 0, Slug |-> "", Version |-> 0]

\* postTemplateHandler: the template of the request is inserted with version 0;
\* admin: the group exists and the caller is admin of it; executes: the
\* template can be executed
postTemplateHandler(data, admin, executes) ==
    LET wt == [ID |-> nextTemplateID, GroupID |-> data.GroupID,
               Slug |-> data.Slug, Version |-> 0]
        conflict == admin /\ executes /\ Conflict(catalog, wt)
        err == ~admin \/ ~executes \/ conflict
    IN  /\ nextTemplateID <= MaxTemplates \/ err
        /\ catalog' = IF err THEN catalog ELSE Insert(catalog, wt)
        /\ nextTemplateID' = IF err THEN nextTemplateID ELSE nextTemplateID + 1
        /\ answer' = [op |-> "post", err |-> err, conflict |-> conflict,
                      GroupID |-> wt.GroupID, Slug |-> wt.Slug, Version |-> wt.Version]
        /\ UNCHANGED <<ledger, nextID, loopVar, inflight, last, job, bulk, task,
                       reply, tar, putting, handler, held, ascode>>

\* putTemplateHandler: the template of the group and slug is given the fields
\* of the request and the next version
putTemplateHandler(groupID, slug, data, admin, executes) ==
    \E old \in LoadBySlugAndGroupID(catalog, slug, groupID) :
        LET clone == UpdateFields(old, data)
            conflict == admin /\ executes /\ Conflict(catalog, clone)
            err == ~admin \/ ~executes \/ conflict
        IN  /\ clone.Version <= MaxVersion
            /\ catalog' = IF err THEN catalog ELSE Update(catalog, clone)
            /\ answer' = [op |-> "put", err |-> err, conflict |-> conflict,
                          GroupID |-> clone.GroupID, Slug |-> clone.Slug,
                          Version |-> clone.Version]
            /\ UNCHANGED <<ledger, nextID, loopVar, inflight, last, job, bulk, task,
                           reply, tar, nextTemplateID, putting, handler, held, ascode>>

\* deleteTemplateHandler: the template of the group and slug is deleted
deleteTemplateHandler(groupID, slug) ==
    \E wt \in LoadBySlugAndGroupID(catalog, slug, groupID) :
        /\ catalog' = catalog \ {wt}
        /\ answer' = [op |-> "delete", err |-> FALSE, conflict |-> FALSE,
                      GroupID |-> wt.GroupID, Slug |-> wt.Slug, Version |-> wt.Version]
        /\ UNCHANGED <<ledger, nextID, loopVar, inflight, last, job, bulk, task,
                       reply, tar, nextTemplateID, putting, handler, held, ascode>>

\* what the variables of the other handlers do in a step of the template store
OutsideTemplates ==
    UNCHANGED <<ledger, nextID, loopVar, inflight, last, job, bulk, task, reply,
                tar, handler, held, ascode>>

\* putTemplateHandler up to the return of LoadBySlugAndGroupID (lines 172-190)
putTemplateLoad(groupID, slug) ==
    /\ putting = None
    /\ \E old \in LoadBySlugAndGroupID(catalog, slug, groupID) :
          /\ old.Version < MaxVersion
          /\ putting' = old
    /\ UNCHANGED <<catalog, nextTemplateID, answer>>
    /\ OutsideTemplates

\* the rest of that call (lines 192-266), on the templates persisted by then:
\* the update of a template that was deleted meanwhile changes no row, and
\* LoadByID then returns an error
putTemplateStore(data, admin, executes) ==
    /\ putting # None
    /\ LET clone == UpdateFields(putting, data)
           gone == \A t \in catalog : t.ID # clone.ID
           conflict == admin /\ executes /\ Conflict(catalog, clone)
           err == ~admin \/ ~executes \/ conflict \/ gone
       IN  /\ clone.Version <= MaxVersion
           /\ catalog' = IF err THEN catalog ELSE Update(catalog, clone)
           /\ answer' = [op |-> "put", err |-> err, conflict |-> conflict,
                         GroupID |-> clone.GroupID, Slug |-> clone.Slug,
                         Version |-> clone.Version]
    /\ putting' = None
    /\ UNCHANGED nextTemplateID
    /\ OutsideTemplates

----------------------------------------------------------------------------
(* Workflow as code: postPerformImportAsCodeHandler (ascode.go).           *)

UUIDs == {"u1", "u2"}

\* the status of a repository operation; "none": no operation of the uuid
OperationStatus == {"pending", "processing", "done", "error"}

NoImport == [uuid |-> "", status |-> "none", err |-> "", read |-> FALSE,
             pushed |-> FALSE, event |-> FALSE]

NoAsCode == [operations |-> [u \in UUIDs |-> "none"], result |-> NoImport]

OutsideAsCode ==
    UNCHANGED <<ledger, nextID, loopVar, inflight, last, job, bulk, task, reply,
                tar, catalog, nextTemplateID, answer, putting, handler, held>>

\* postImportAsCodeHandler: operation.PostRepositoryOperation creates the
\* operation, pending
postImportAsCodeHandler(uuid) ==
    /\ ascode.operations[uuid] = "none"
    /\ ascode' = [ascode EXCEPT !.operations[uuid] = "pending"]
    /\ OutsideAsCode

\* the repositories service runs the operation
RepositoryOperation(uuid) ==
    /\ \E st \in OperationStatus :
          /\ \/ ascode.operations[uuid] = "pending" /\ st = "processing"
             \/ ascode.operations[uuid] = "processing" /\ st \in {"done", "error"}
          /\ ascode' = [ascode EXCEPT !.operations[uuid] = st]
    /\ OutsideAsCode

\* ope.Status != sdk.OperationStatusDone
AlwaysAllowed(status) == FALSE
NotAllowed(status) == status # "done"

\* postPerformImportAsCodeHandler: loaded: project.Load returns the project;
\* files: workflow.ReadCDSFiles returns the archive; push: what workflow.Push
\* returns: an error, no workflow, or the workflow
postPerformImportAsCodeHandler(uuid, loaded, files, push) ==
    LET status == ascode.operations[uuid]
        out == [NoImport EXCEPT !.uuid = uuid, !.status = status]
    IN  /\ ascode' = [ascode EXCEPT !.result =
              IF ~loaded THEN [out EXCEPT !.err = "Cannot load project"]
              ELSE IF status = "none"
              THEN [out EXCEPT !.err = "Unable to get repository operation"]
              ELSE IF NotAllowed(status) THEN [out EXCEPT !.err = "ErrMethodNotAllowed"]
              ELSE IF ~files
              THEN [out EXCEPT !.err = "Unable to read cds files", !.read = TRUE]
              ELSE IF push = "error"
              THEN [out EXCEPT !.err = "Unable to push workflow", !.read = TRUE]
              ELSE IF push = "nil"
              THEN [out EXCEPT !.err = "nil pointer dereference", !.read = TRUE,
                               !.pushed = TRUE]
              ELSE [out EXCEPT !.read = TRUE, !.pushed = TRUE, !.event = TRUE]]
        /\ OutsideAsCode

----------------------------------------------------------------------------
Init ==
    /\ ledger = {}
    /\ nextID = 1
    /\ loopVar \in LoopVars
    /\ inflight = None
    /\ last = NoCall
    /\ job = None
    /\ bulk = None
    /\ task = NoTask
    /\ reply = NoReply
    /\ tar = NoTar
    /\ catalog = {}
    /\ nextTemplateID = 1
    /\ answer = NoAnswer
    /\ putting = None
    /\ handler = "idle"
    /\ held = None
    /\ ascode = NoAsCode

Next ==
    \/ \E wt \in Templates, req \in ApplyRequests, in \in ApplyInputs : Apply(wt, req, in)
    \/ \E id \in 1..MaxID : deleteTemplateInstanceHandler(id)

Spec == Init /\ [][Next]_vars

NextRace ==
    \/ \E wt \in Templates, req \in RaceRequests, in \in ApplyInputs : Apply(wt, req, in)
    \/ \E wt \in Templates, req \in RaceRequests : ApplyLookup(wt, req)
    \/ \E in \in ApplyInputs : ApplyFinish(in)

SpecRace == Init /\ [][NextRace]_vars

\* the user of the calls where the caller makes no difference
Creator == [ID |-> 1, Admin |-> FALSE]

NextBulk ==
    \/ \E wt \in Templates, ops \in Bodies, permitted, inserted \in BOOLEAN :
          postTemplateBulkHandler(wt, ops, Creator, permitted, inserted)
    \/ \E updated \in BOOLEAN : TaskLoop(updated)
    \/ \E wt \in Templates, in \in BulkApplyInputs,
          loaded, packed, pushed, updated \in BOOLEAN :
          TaskProcess(wt, loaded, in, packed, pushed, updated)
    \/ getTemplateBulkHandler(BulkID, 1, Creator)

SpecBulk == Init /\ [][NextBulk]_vars

\* a step of the goroutine: every call it makes returns, so it is never stopped
\* for ever between two steps
TaskStep ==
    \/ \E updated \in BOOLEAN : TaskLoop(updated)
    \/ \E wt \in Templates, in \in BulkApplyInputs,
          loaded, packed, pushed, updated \in BOOLEAN :
          TaskProcess(wt, loaded, in, packed, pushed, updated)

SpecBulkFair == SpecBulk /\ WF_vars(TaskStep)

\* the bodies of at most two operations on one project
SmallBodies ==
    {ops \in Bodies : /\ Len(ops) <= 2
                      /\ \A i \in DOMAIN ops : ops[i].Request.ProjectKey = STR_P}

\* a bulk job with the response of the handler that created it
NextResponse ==
    \/ \E wt \in Templates, ops \in SmallBodies, permitted, inserted \in BOOLEAN :
          postTemplateBulkHandler(wt, ops, Creator, permitted, inserted)
    \/ WriteJSON
    \/ TaskStep

SpecResponse == Init /\ [][NextResponse]_vars

\* the ids of the templates of the store
TemplateIDs == {1, 2}

\* a bulk job of any user, read by any user
NextVisible ==
    \/ \E wt \in Templates, ops \in SmallBodies, u \in Users,
          permitted, inserted \in BOOLEAN :
          postTemplateBulkHandler(wt, ops, u, permitted, inserted)
    \/ \E updated \in BOOLEAN : TaskLoop(updated)
    \/ \E id \in 0..(BulkID + 1), tID \in TemplateIDs, u \in Users :
          getTemplateBulkHandler(id, tID, u)

SpecVisible == Init /\ [][NextVisible]_vars

NextTar ==
    \/ \E wt \in PullTemplates : postTemplatePullHandler(wt)
    \/ \E a \in (IF tar.archive = None THEN Archives ELSE {tar.archive}) :
          postTemplatePushHandler(a)

SpecTar == Init /\ [][NextTar]_vars

NextTemplates ==
    \/ \E data \in TemplateData, admin, executes \in BOOLEAN :
          postTemplateHandler(data, admin, executes)
    \/ \E groupID \in GroupIDs, slug \in Slugs, data \in TemplateData,
          admin, executes \in BOOLEAN :
          putTemplateHandler(groupID, slug, data, admin, executes)
    \/ \E groupID \in GroupIDs, slug \in Slugs : deleteTemplateHandler(groupID, slug)

SpecTemplates == Init /\ [][NextTemplates]_vars

\* the template handlers, with a call of putTemplateHandler that others overtake
NextTemplatesRace ==
    \/ NextTemplates
    \/ \E groupID \in GroupIDs, slug \in Slugs : putTemplateLoad(groupID, slug)
    \/ \E data \in TemplateData, admin, executes \in BOOLEAN :
          putTemplateStore(data, admin, executes)

SpecTemplatesRace == Init /\ [][NextTemplatesRace]_vars

\* the requests and inputs of the calls that follow the template version
PinRequests == {req \in ApplyRequests : req.WorkflowName = STR_w}
PinInputs ==
    {in \in ApplyInputs : /\ in.failAt \in {"none", "update", "commit"}
                          /\ in.exec.kind = "workflow" => in.exec.name = STR_w}

\* postTemplateBulkHandler loads the template (lines 506-512) that its
\* goroutine applies in every operation
LoadTemplate(groupID, slug) ==
    /\ \E wt \in LoadBySlugAndGroupID(catalog, slug, groupID) : held' = wt
    /\ UNCHANGED <<ledger, nextID, loopVar, inflight, last, job, bulk, task, reply,
                   tar, catalog, nextTemplateID, answer, putting, handler, ascode>>

\* the goroutine applies the template its handler loaded (line 598)
ApplyLoaded(req, in) ==
    /\ held # None
    /\ Apply(held, req, in)

\* postTemplateApplyHandler loads the template and applies it
ApplyCurrent(groupID, slug, req, in) ==
    \E wt \in LoadBySlugAndGroupID(catalog, slug, groupID) : Apply(wt, req, in)

\* one template, updated while callers that loaded it apply it
NextPin ==
    \/ \E data \in TemplateData, admin, executes \in BOOLEAN :
          /\ data.GroupID = 1 /\ data.Slug = "a"
          /\ postTemplateHandler(data, admin, executes)
    \/ \E data \in TemplateData, admin, executes \in BOOLEAN :
          /\ data.GroupID = 1 /\ data.Slug = "a"
          /\ putTemplateHandler(1, "a", data, admin, executes)
    \/ LoadTemplate(1, "a")
    \/ \E req \in PinRequests, in \in PinInputs : ApplyLoaded(req, in)
    \/ \E req \in PinRequests, in \in PinInputs : ApplyCurrent(1, "a", req, in)

SpecPin == Init /\ [][NextPin]_vars

NextAsCode ==
    \/ \E uuid \in UUIDs : postImportAsCodeHandler(uuid)
    \/ \E uuid \in UUIDs : RepositoryOperation(uuid)
    \/ \E uuid \in UUIDs, loaded, files \in BOOLEAN,
          push \in {"error", "nil", "workflow"} :
          postPerformImportAsCodeHandler(uuid, loaded, files, push)

SpecAsCode == Init /\ [][NextAsCode]_vars

----------------------------------------------------------------------------
(* The instance reconciler: claims C1 to C5.                               *)

\* the persisted instances of the (template, project, requested workflow name)
\* of req
Persisted(db, req) ==
    InstancesByRequest(db, 1, ProjectID(req.ProjectKey), req.WorkflowName)

IDs(rows) == {r.ID : r \in rows}

\* the step is a call of applyTemplate that succeeded, not detached
AppliedStep ==
    /\ last'.op = "apply"
    /\ last'.step = "none"
    /\ ~last'.req.Detached

\* C1: the second of two successive successful calls with the same non-detached
\* request leaves exactly one persisted instance for its (template, project,
\* requested workflow name): the row the first call left, which it updates
\* (an update event for that row, no row inserted).
C1_Idempotent ==
    [][(AppliedStep /\ last'.again) =>
         LET before == Persisted(ledger, last'.req)
             after == Persisted(ledger', last'.req) IN
         /\ Cardinality(after) = 1
         /\ IDs(after) = IDs(before)
         /\ nextID' = nextID
         /\ \A r \in after :
               last'.events = <<[type |-> "InstanceUpdate", id |-> r.ID]>>]_vars

C1_Witness ==
    /\ last.op = "apply" /\ last.step = "none" /\ ~last.req.Detached
    /\ last.again
    /\ Cardinality(Persisted(ledger, last.req)) = 1
    /\ Len(last.events) = 1

\* C2 as stated: whatever the call, after one call of applyTemplate for a triple
\* that had two or more persisted instances exactly one survives.
C2_AnyCallHeals ==
    [][(/\ last'.op = "apply" /\ last'.alone
        /\ Cardinality(Persisted(ledger, last'.req)) >= 2)
       => Cardinality(Persisted(ledger', last'.req)) = 1]_vars

\* C2, amended: after one successful non-detached call of applyTemplate for a
\* triple that had two or more persisted instances when the call looked them up,
\* exactly one persisted instance of the triple survives.
C2_AppliedCallHeals ==
    [][(/\ AppliedStep /\ last'.alone
        /\ Cardinality(Persisted(ledger, last'.req)) >= 2)
       => /\ Cardinality(Persisted(ledger', last'.req)) = 1
          /\ IDs(Persisted(ledger', last'.req)) \subseteq IDs(Persisted(ledger, last'.req))]_vars

C2_Witness ==
    /\ last.op = "apply" /\ last.step = "none" /\ ~last.req.Detached
    /\ last.alone
    /\ last.found >= 2
    /\ Cardinality(Persisted(ledger, last.req)) = 1

\* C3 as stated: a detached call leaves the persisted instances as they were and
\* publishes no event.
C3_DetachedChangesNothing ==
    [][(last'.op = "apply" /\ last'.req.Detached)
       => (ledger' = ledger /\ last'.events = <<>>)]_vars

\* C3, amended: a detached call inserts no persisted instance and updates none,
\* and publishes no event; all it may do to the ledger is delete instances of its
\* own (template, project, requested workflow name).
C3_DetachedOnlyDeletes ==
    [][(last'.op = "apply" /\ last'.req.Detached)
       => /\ ledger' \subseteq ledger
          /\ (ledger \ ledger') \subseteq Persisted(ledger, last'.req)
          /\ nextID' = nextID
          /\ last'.events = <<>>]_vars

C3_Witness ==
    /\ last.op = "apply" /\ last.step = "none" /\ last.req.Detached
    /\ last.found = 1
    /\ ledger # {}

\* C4: a call of applyTemplate that returns an error leaves the persisted
\* instances exactly as they were before the call.
C4_ErrorRollsBack ==
    [][(last'.op = "apply" /\ last'.step # "none") => ledger' = ledger]_vars

\* template execution failed in a call that had inserted a new row
C4_Witness ==
    /\ last.op = "apply" /\ last.step = "execute" /\ ~last.req.Detached
    /\ last.found = 0
    /\ Persisted(ledger, last.req) = {}

\* C5: at most one persisted instance for a (template, project, resolved
\* workflow name).
C5_UniqueResolvedName ==
    \A r1, r2 \in ledger :
        (/\ r1.WorkflowTemplateID = r2.WorkflowTemplateID
         /\ r1.ProjectID = r2.ProjectID
         /\ r1.WorkflowName = r2.WorkflowName) => r1.ID = r2.ID

----------------------------------------------------------------------------
(* The bulk orchestrator: claims C6 to C10.                                *)

Status(b, i) == b.Operations[i].Status

Terminal(st) == st \in {"done", "error"}

\* two operations with the same (project key, workflow name)
SamePair(ops) ==
    \E i, j \in DOMAIN ops :
        /\ i # j
        /\ ops[i].Request.ProjectKey = ops[j].Request.ProjectKey
        /\ ops[i].Request.WorkflowName = ops[j].Request.WorkflowName

\* a request that fails the parameter check
BadParams(ops) == \E i \in DOMAIN ops : ops[i].Request.Parameters = "none"

\* C6: a bulk request with two operations of the same (project key, workflow
\* name), or with a request that fails the parameter check, is rejected: no job
\* is stored, no task is started, no operation is processed.
C6_PreflightRejects ==
    /\ (reply.from = "post" /\ (SamePair(reply.ops) \/ BadParams(reply.ops)))
       => (reply.err /\ job = None /\ bulk = None /\ task = NoTask /\ ledger = {})
    /\ (job # None \/ bulk # None \/ task # NoTask)
       => (~SamePair(task.req) /\ ~BadParams(task.req))

C6_Witness ==
    /\ reply.from = "post" /\ reply.err
    /\ SamePair(reply.ops) /\ ~BadParams(reply.ops)
    /\ job = None /\ task = NoTask

\* C7: when no store of the bulk fails, the task ends only after the last
\* operation: every operation is then done or error, an operation on a missing
\* project is error with a cause, and each operation was given the status its
\* own steps determined, whatever the operations before it did.
C7_Isolation ==
    /\ (task.pc = "end" /\ ~task.persistFailed) =>
          \A i \in DOMAIN job.Operations :
              /\ Terminal(Status(job, i))
              /\ job.Operations[i].Request.ProjectKey \notin ProjectKeys
                 => (Status(job, i) = "error" /\ job.Operations[i].Error # "")
    /\ (task.pc \in {"loop", "end"} /\ ~task.persistFailed /\ task.i >= 2) =>
          LET o == job.Operations[task.i - 1] IN
          /\ o.Status = IF task.failed = "none" THEN "done" ELSE "error"
          /\ o.Error = IF task.failed = "none" THEN "" ELSE task.failed

\* [A valid, B missing project, C valid] ended [done, error, done]
C7_Witness ==
    /\ task.pc = "end" /\ ~task.persistFailed
    /\ Len(job.Operations) = 3
    /\ job.Operations[2].Request.ProjectKey = STR_Q
    /\ Status(job, 1) = "done" /\ Status(job, 2) = "error" /\ Status(job, 3) = "done"

\* the operations q are the operations ops in some order
SameOperations(q, ops) ==
    /\ Len(q) = Len(ops)
    /\ \A o \in {ops[i] : i \in DOMAIN ops} \cup {q[i] : i \in DOMAIN q} :
          Cardinality({i \in DOMAIN q : q[i] = o})
              = Cardinality({i \in DOMAIN ops : ops[i] = o})

\* C8 as stated: the i-th operation that getTemplateBulkHandler returns is the
\* i-th operation submitted.
C8_ReadKeepsOrder ==
    (reply.from = "get" /\ ~reply.err) =>
        /\ Len(reply.ops) = Len(task.req)
        /\ \A i \in DOMAIN reply.ops : reply.ops[i].Request = task.req[i].Request

\* C8, amended: the stored job keeps the operations in the order of the request;
\* getTemplateBulkHandler returns the same operations sorted by ascending
\* requested workflow name.
C8_StoredOrderSortedRead ==
    /\ job # None =>
          /\ Len(job.Operations) = Len(task.req)
          /\ \A i \in DOMAIN task.req :
                job.Operations[i].Request = task.req[i].Request
    /\ (reply.from = "get" /\ ~reply.err) =>
          /\ SameOperations(reply.ops, job.Operations)
          /\ \A i, j \in DOMAIN reply.ops :
                i < j => ~StrLess(reply.ops[j].Request.WorkflowName,
                                  reply.ops[i].Request.WorkflowName)

\* a read that returned the operations in another order than stored
C8_Witness ==
    /\ reply.from = "get"
    /\ Len(reply.ops) = 3
    /\ reply.ops # job.Operations

\* C9: the stored status of an operation only moves pending -> processing ->
\* done or pending -> processing -> error.
C9_StatusMonotonic ==
    [][(job # None /\ job' # None) =>
         \A i \in DOMAIN job.Operations :
             LET a == Status(job, i)
                 b == Status(job', i) IN
             \/ a = b
             \/ a = "pending" /\ b = "processing"
             \/ a = "processing" /\ Terminal(b)]_vars

C9_Witness ==
    /\ job # None
    /\ \E i, j \in DOMAIN job.Operations :
          Status(job, i) = "done" /\ Status(job, j) = "error"

\* C10: in the stored job at most one operation is processing, every operation
\* before it is done or error and every operation after it is pending; the task
\* runs the reconciler for the one operation that is processing.
C10_InOrder ==
    job # None =>
        /\ \A i \in DOMAIN job.Operations :
              Status(job, i) = "processing" =>
                  /\ \A j \in 1..(i - 1) : Terminal(Status(job, j))
                  /\ \A j \in (i + 1)..Len(job.Operations) : Status(job, j) = "pending"
        /\ task.pc = "process" =>
              /\ Status(job, task.i) = "processing"
              /\ \A j \in DOMAIN job.Operations :
                    Status(job, j) = "processing" => j = task.i

C10_Witness ==
    /\ job # None
    /\ Len(job.Operations) = 3
    /\ Status(job, 1) = "error"
    /\ Status(job, 2) = "processing"
    /\ Status(job, 3) = "pending"
    /\ task.pc = "process"

----------------------------------------------------------------------------
(* The bulk orchestrator: claims C11 to C14.                               *)

\* C11: the job is stored with every operation pending and without error text,
\* whatever status and error text the request carried, before the goroutine
\* takes its first step; the handler starts one goroutine for a stored job and
\* none when no job was stored (the insert failed or the request was rejected).
C11_StoredPendingBeforeTask ==
    /\ job = None => (task = NoTask /\ bulk = None)
    /\ job # None => (task.spawned = 1 /\ task.pc # "none")
    /\ (task.pc = "loop" /\ task.i = 1) =>
          /\ job # None
          /\ Len(job.Operations) = Len(task.req)
          /\ \A i \in DOMAIN job.Operations :
                /\ job.Operations[i].Request = task.req[i].Request
                /\ job.Operations[i].Status = "pending"
                /\ job.Operations[i].Error = ""

\* a request of three operations sent as done with an error text is stored
\* pending, the goroutine started and not yet run
C11_Witness ==
    /\ job # None
    /\ task.pc = "loop" /\ task.i = 1 /\ task.spawned = 1
    /\ Len(task.req) = 3
    /\ \A i \in DOMAIN task.req :
          /\ task.req[i].Status = "done" /\ task.req[i].Error = "sent"
          /\ Status(job, i) = "pending"

\* C12: when every call of the goroutine returns, the goroutine of a stored job
\* ends, and when it ends without a failed store of the bulk every operation of
\* the stored job is done or error.
C12_BulkTerminates ==
    /\ (job # None) ~> (task.pc = "end")
    /\ []((task.pc = "end" /\ ~task.persistFailed) =>
            \A i \in DOMAIN job.Operations : Terminal(Status(job, i)))

C12_Witness ==
    /\ task.pc = "end" /\ ~task.persistFailed
    /\ Len(job.Operations) = 2
    /\ Status(job, 1) = "error" /\ Status(job, 2) = "done"

\* C13: once a store of the bulk has failed the goroutine has ended: it takes
\* no further step, no operation is applied, and the stored job, the bulk in
\* memory and the persisted instances stay as they are.
C13_StopsAtFailedUpdate ==
    [][task.persistFailed =>
         /\ task.pc = "end"
         /\ task' = task
         /\ job' = job
         /\ bulk' = bulk
         /\ ledger' = ledger
         /\ nextID' = nextID]_vars

\* the store of the outcome of the second of three operations failed; the job
\* was read afterwards with the second still processing and the third pending
C13_Witness ==
    /\ task.persistFailed
    /\ task.i = 2
    /\ Len(job.Operations) = 3
    /\ Status(job, 2) = "processing" /\ Status(job, 3) = "pending"
    /\ reply.from = "get"

\* the cause texts errorDefer records: one for each step that may fail
Causes == {"load", "apply", "tar", "push"}

\* C14: the goroutine stores an operation as done when the project load, the
\* apply, the packing and the push all succeeded, and as error with the cause
\* of the failing step otherwise, leaving the other operations as they were; in
\* the stored job an error operation carries a cause and a pending, processing
\* or done operation carries no error text.
C14_TerminalStatus ==
    /\ [](job # None =>
            \A i \in DOMAIN job.Operations :
                IF Status(job, i) = "error"
                THEN job.Operations[i].Error \in Causes
                ELSE job.Operations[i].Error = "")
    /\ [][(task.pc = "process" /\ job' # job) =>
            /\ Status(job', task.i) =
                  (IF task'.failed = "none" THEN "done" ELSE "error")
            /\ job'.Operations[task.i].Error =
                  (IF task'.failed = "none" THEN "" ELSE task'.failed)
            /\ task'.failed \in Causes \cup {"none"}
            /\ \A j \in DOMAIN job.Operations :
                  j # task.i => job'.Operations[j] = job.Operations[j]]_vars

\* a stored job with an operation that failed at the push and one at the
\* project load, and one done
C14_Witness ==
    /\ job # None
    /\ Len(job.Operations) = 3
    /\ Status(job, 1) = "error" /\ job.Operations[1].Error = "push"
    /\ Status(job, 2) = "error" /\ job.Operations[2].Error = "load"
    /\ Status(job, 3) = "done" /\ job.Operations[3].Error = ""

----------------------------------------------------------------------------
(* The instance reconciler: claim C15.                                     *)

----------------------------------------------------------------------------
(* Template archives: claims C16 to C19.                                   *)

\* the archive that was read, and whether all of it could be read
Read == tar.decoded # NoResult
ReadWhole == Read /\ tar.archive.broken = 0

\* the entries of each kind, by what their names are
IsApplication(e) == Contains(e.Name, DotApplication)
IsPipeline(e) == ~IsApplication(e) /\ Contains(e.Name, DotPipeline)
IsEnvironment(e) == ~IsApplication(e) /\ ~IsPipeline(e) /\ Contains(e.Name, DotEnvironment)
IsWorkflow(e) ==
    /\ ~Contains(e.Name, DotApplication) /\ ~Contains(e.Name, DotPipeline)
    /\ ~Contains(e.Name, DotEnvironment) /\ e.Name = WorkflowYml
IsDescriptor(e) ==
    /\ ~Contains(e.Name, DotApplication) /\ ~Contains(e.Name, DotPipeline)
    /\ ~Contains(e.Name, DotEnvironment) /\ e.Name # WorkflowYml

Positions(a, Is(_)) == {k \in DOMAIN a.entries : Is(a.entries[k])}

\* the contents of the entries of a kind, in the order of the archive
BodiesOf(entries, Is(_)) ==
    LET sel == SelectSeq(entries, Is) IN [i \in DOMAIN sel |-> sel[i].Body]

\* C16: ReadFromTar returns an error for every archive with more than one entry
\* named workflow.yml, whatever these entries hold and wherever they are.
C16_TwoWorkflowsFail ==
    (Read /\ Cardinality(Positions(tar.archive, IsWorkflow)) >= 2)
        => tar.decoded.err # ""

\* C17: ReadFromTar returns an error for every archive with two or more
\* template descriptor entries, and the error names two of these entries, also
\* when the first of them cannot be parsed.
C17_TwoDescriptorsNamed ==
    (ReadWhole /\ Cardinality(Positions(tar.archive, IsDescriptor)) >= 2) =>
        /\ tar.decoded.err # ""
        /\ \E c \in {tar.decoded.causes[n] : n \in DOMAIN tar.decoded.causes} :
              /\ c.kind = "Two template files found"
              /\ \E i, j \in Positions(tar.archive, IsDescriptor) :
                    /\ i < j
                    /\ c.first = tar.archive.entries[i].Name
                    /\ c.second = tar.archive.entries[j].Name

\* the descriptor entry k of a can be parsed
Parses(a, k) == ~Unmarshal(a.entries[k].Body, ZeroTemplate).err

\* the error that entry k of a is recorded with, None when it is recorded with
\* none: a workflow entry after one that is not empty, a descriptor entry after
\* one that was parsed, a descriptor entry that cannot be parsed
Recorded(a, k) ==
    LET e == a.entries[k]
        parsed == {j \in 1..(k - 1) : IsDescriptor(a.entries[j]) /\ Parses(a, j)}
    IN  IF IsWorkflow(e)
        THEN IF \E j \in 1..(k - 1) :
                    IsWorkflow(a.entries[j]) /\ a.entries[j].Body # EmptyBody
             THEN TwoWorkflows ELSE None
        ELSE IF IsDescriptor(e)
        THEN IF parsed # {}
             THEN TwoTemplates(a.entries[CHOOSE j \in parsed : \A i \in parsed : j <= i].Name,
                               e.Name)
             ELSE IF ~Parses(a, k) THEN UnableToUnmarshal(e.Name) ELSE None
        ELSE None

\* C18: an entry that is recorded with an error does not end the scan: every
\* entry of the archive is read; ReadFromTar returns an error exactly when an
\* entry was recorded with one, and the error holds the causes of all these
\* entries in their order; otherwise it returns the template of the descriptor,
\* of the application, pipeline and environment entries in the order of the
\* archive, and of the workflow entry.
C18_Aggregates ==
    ReadWhole =>
        LET a == tar.archive
            d == tar.decoded
            bad == {k \in DOMAIN a.entries : Recorded(a, k) # None}
        IN  /\ d.read = Len(a.entries)
            /\ d.err \in {"", "ErrWorkflowInvalid"}
            /\ d.err # "" <=> bad # {}
            /\ Len(d.causes) = Cardinality(bad)
            /\ \A n \in DOMAIN d.causes :
                  \E k \in bad :
                      /\ Cardinality({j \in bad : j < k}) = n - 1
                      /\ d.causes[n] = Recorded(a, k)
            /\ d.err = "" =>
                  /\ d.wt.applications = BodiesOf(a.entries, IsApplication)
                  /\ d.wt.pipelines = BodiesOf(a.entries, IsPipeline)
                  /\ d.wt.environments = BodiesOf(a.entries, IsEnvironment)
                  /\ \A k \in Positions(a, IsDescriptor) :
                        d.wt.descriptor = Unmarshal(a.entries[k].Body, ZeroTemplate).tmpl
                  /\ Positions(a, IsDescriptor) = {} => d.wt.descriptor = ZeroTemplate
                  /\ \A k \in Positions(a, IsWorkflow) :
                        a.entries[k].Body # EmptyBody => d.wt.workflow = a.entries[k].Body
                  /\ d.wt.workflow # EmptyBody =>
                        \E k \in Positions(a, IsWorkflow) : d.wt.workflow = a.entries[k].Body

\* a descriptor that cannot be parsed, a workflow and a second workflow: all
\* three entries were read and two causes are returned
C18_Witness ==
    /\ ReadWhole
    /\ Len(tar.archive.entries) = 3
    /\ tar.archive.entries[1] = [Name |-> NAME_t, Body |-> BODY_bad]
    /\ tar.decoded.read = 3
    /\ tar.decoded.causes = <<UnableToUnmarshal(NAME_t), TwoWorkflows>>

\* C19: the archive that is pulled from a template is read without error, and
\* the template read has the descriptor of the pulled one, its sub-definitions
\* of each kind, as many and in their order, and its workflow text.
C19_RoundTrip ==
    (Read /\ tar.source # None) =>
        /\ tar.decoded.err = ""
        /\ tar.decoded.wt.descriptor = tar.source.descriptor
        /\ tar.decoded.wt.pipelines = tar.source.pipelines
        /\ tar.decoded.wt.applications = tar.source.applications
        /\ tar.decoded.wt.environments = tar.source.environments
        /\ tar.decoded.wt.workflow = tar.source.workflow

\* a template with two different pipelines, an application and a workflow
C19_Witness ==
    /\ Read /\ tar.source # None
    /\ tar.source.pipelines = <<BODY_t, EmptyBody>>
    /\ Len(tar.source.applications) = 1
    /\ tar.source.workflow = BODY_t
    /\ tar.decoded.err = ""
    /\ tar.decoded.wt.pipelines = <<BODY_t, EmptyBody>>

----------------------------------------------------------------------------
(* The template store: claim C20.                                          *)

\* the persisted templates of the group and slug of the last request
SameGroupSlug(db) ==
    {t \in db : t.GroupID = answer'.GroupID /\ t.Slug = answer'.Slug}

\* C20: no two persisted templates have the same (group, slug), and a call of
\* postTemplateHandler with the (group, slug) of a persisted template returns an
\* error and leaves the persisted templates as they were.
C20_UniqueGroupSlug ==
    /\ [](\A t1, t2 \in catalog :
             (t1.GroupID = t2.GroupID /\ t1.Slug = t2.Slug) => t1 = t2)
    /\ [][(answer'.op = "post" /\ SameGroupSlug(catalog) # {}) =>
            /\ answer'.err
            /\ catalog' = catalog
            /\ nextTemplateID' = nextTemplateID]_vars

\* postTemplateHandler failed on the constraint, by the template that is
\* persisted with its group and slug
C20_Witness ==
    /\ answer.op = "post" /\ answer.err /\ answer.conflict
    /\ \E t \in catalog : t.GroupID = answer.GroupID /\ t.Slug = answer.Slug

----------------------------------------------------------------------------
(* The template store: claim C21.                                          *)

\* C21: whenever the persisted version of a template changes it becomes the
\* version persisted before plus one, so that the persisted version never
\* decreases and no two updates persist the same version; a successful call of
\* putTemplateHandler changes it.
C21_VersionPlusOne ==
    [][/\ \A t \in catalog : \A u \in catalog' :
             (t.ID = u.ID /\ u.Version # t.Version) => u.Version = t.Version + 1
       /\ (answer'.op = "put" /\ ~answer'.err /\ catalog' # catalog) =>
             \E t \in catalog : \E u \in catalog' :
                 t.ID = u.ID /\ u.Version = t.Version + 1]_vars

----------------------------------------------------------------------------
(* Overlapping calls of applyTemplate: claims C22 to C24.                  *)

\* the last call succeeded, and another call for its (template, project,
\* requested workflow name) committed between its lookup and its end
BothCommitted ==
    /\ inflight = None
    /\ last.op = "apply" /\ last.step = "none" /\ last.raced

C23_FirstFoundUpdated ==
    [][(AppliedStep /\ last'.alone /\ last'.found >= 2)
       => /\ IDs(Persisted(ledger', last'.req)) = {last'.first}
          /\ last'.id = last'.first
          /\ last'.events = <<[type |-> "InstanceUpdate", id |-> last'.first]>>
          /\ \A r \in Persisted(ledger', last'.req) :
                /\ r.WorkflowTemplateVersion = last'.pin
                /\ r.Request = last'.req]_vars

\* C24: after a successful detached call no instance is persisted for the
\* (template, project, requested workflow name) of its request, no row was
\* inserted, and the instance it executed has an identifier taken from the clock.
C24_DetachedLeavesNone ==
    [][(last'.op = "apply" /\ last'.step = "none" /\ last'.alone
        /\ last'.req.Detached)
       => /\ Persisted(ledger', last'.req) = {}
          /\ ledger' \subseteq ledger
          /\ nextID' = nextID
          /\ last'.id \in Times]_vars

----------------------------------------------------------------------------
(* The bulk handlers: claims C25 and C26.                                  *)

\* C25: postTemplateBulkHandler reports a duplicate only for a request with two
\* operations of the same project key and the same workflow name, and a request
\* whose (project key, workflow name) pairs are pairwise distinct and whose
\* parameters pass the check is refused only for a missing permission (or a
\* failed insert of the bulk).
C25_ExactDuplicates ==
    (reply.from = "post" /\ reply.err) =>
        /\ reply.cause = "request should be unique" => SamePair(reply.ops)
        /\ (~SamePair(reply.ops) /\ ~BadParams(reply.ops)) =>
               reply.cause \in {"forbidden", "insert"}

\* C26: the job that postTemplateBulkHandler writes in its response has every
\* operation pending with no error text, however far the goroutine is.
C26_ResponseAllPending ==
    reply.from = "created" =>
        \A i \in DOMAIN reply.ops :
            reply.ops[i].Status = "pending" /\ reply.ops[i].Error = ""

----------------------------------------------------------------------------
(* The bulk task and the ledger: claim C27.                                *)

\* the step is the rest of an iteration of the goroutine (TaskProcess)
ProcessStep == task.pc = "process" /\ task' # task

\* C27 as stated: a bulk operation that ends in Error leaves the persisted
\* instances as they were before it, whichever step failed.
C27_FailedLeavesLedger ==
    [][(ProcessStep /\ task'.failed # "none") => ledger' = ledger]_vars

\* C27, amended: a bulk operation that fails at the project load or in
\* applyTemplate leaves the persisted instances as they were; one that fails at
\* the archive or at the import of the workflow leaves the instance that its
\* applyTemplate call committed, and the instances of other requests as they were.
C27_FailedApplyLeavesLedger ==
    [][ProcessStep =>
          LET req == bulk.Operations[task.i].Request IN
          /\ task'.failed \in {"load", "apply"} =>
                (ledger' = ledger /\ nextID' = nextID)
          /\ task'.failed \in {"tar", "push"} =>
                /\ \E r \in Persisted(ledger', req) : r.Request = req
                /\ ledger' \ Persisted(ledger', req) = ledger \ Persisted(ledger, req)]_vars

\* an operation failed at the import of its workflow and its instance is persisted
C27_Witness ==
    /\ task.failed = "push"
    /\ \E i \in DOMAIN bulk.Operations :
          /\ bulk.Operations[i].Status = "error"
          /\ bulk.Operations[i].Error = "push"
          /\ Persisted(ledger, bulk.Operations[i].Request) # {}

----------------------------------------------------------------------------
(* The template version of an instance: claim C28.                         *)

\* the template version of the persisted instances of req (0 when there is none)
PinOf(db, req) ==
    IF Persisted(db, req) = {} THEN 0
    ELSE (CHOOSE r \in Persisted(db, req) : TRUE).WorkflowTemplateVersion

\* the step is a successful non-detached call of applyTemplate, where calls
\* alternate with the template handlers
AppliedCall ==
    AppliedStep /\ UNCHANGED <<catalog, held, answer>>

----------------------------------------------------------------------------
(* Reading a bulk job: claim C29.                                          *)

\* the stored bulk has the id and the template asked for, and the caller is an
\* administrator or the user who created it
MayRead ==
    /\ job # None
    /\ job.ID = reply.id
    /\ job.WorkflowTemplateID = reply.tID
    /\ (reply.to.Admin \/ reply.to.ID = job.UserID)

\* C29: getTemplateBulkHandler returns the bulk job exactly when it exists for
\* the given id and template and the caller is an administrator or its creator;
\* otherwise it returns not found (invalid id for the id 0), with no operation.
C29_VisibleToOwnerAndAdmin ==
    reply.from = "get" =>
        /\ ~reply.err <=> MayRead
        /\ ~reply.err => SameOperations(reply.ops, job.Operations)
        /\ reply.err =>
              /\ reply.ops = <<>>
              /\ reply.cause = IF reply.id = 0 THEN "invalid given id" ELSE "not found"

\* another user asked for a bulk job in progress and got not found
C29_Witness ==
    /\ reply.from = "get" /\ reply.err /\ reply.cause = "not found"
    /\ job # None /\ job.ID = reply.id /\ job.WorkflowTemplateID = reply.tID
    /\ ~reply.to.Admin /\ reply.to.ID # job.UserID
    /\ \E i \in DOMAIN job.Operations : job.Operations[i].Status = "processing"

----------------------------------------------------------------------------
(* Workflow as code: claim C30.                                            *)

\* C30: postPerformImportAsCodeHandler reads the files, pushes the workflow and
\* publishes the workflow-add event only for an operation whose status is done;
\* for a pending, processing or failed operation of a project it could load it
\* returns method not allowed.
C30_OnlyDoneIsPushed ==
    LET res == ascode.result IN
    /\ (res.read \/ res.pushed \/ res.event) => res.status = "done"
    /\ res.status \in {"pending", "processing", "error"} =>
          res.err \in {"ErrMethodNotAllowed", "Cannot load project"}
    /\ res.event => (res.pushed /\ res.err = "")

\* a call for an operation in progress was refused
C30_Witness ==
    /\ ascode.result.status = "processing"
    /\ ascode.result.err = "ErrMethodNotAllowed"
    /\ ~ascode.result.read /\ ~ascode.result.pushed /\ ~ascode.result.event

====
